---- MODULE Spec2Model ----
(***************************************************************************)
(* A model of the euui crate: `Euui([u128; 4])`, a 512-bit identifier, its *)
(* constructors, its views as 128-bit, 64-bit and 8-bit values, and the    *)
(* segment-replacing operations of the `uuid` and `random` features.       *)
(*                                                                         *)
(* Arrays are functions over 0..n-1, so that the index arithmetic of the   *)
(* source (i * 16, index / 16, index % 16, ...) is kept as written.        *)
(*                                                                         *)
(* TLC's integers are 32 bits wide, so a u128 or a u64 cannot be one TLC   *)
(* integer.  An unsigned integer of 16*n bits is held at its full width as *)
(* n limbs of 16 bits, limb 0 the most significant: the value of x is      *)
(* x[0]*2^(16*(n-1)) + ... + x[n-1].  A u64 has 4 limbs, a u128 has 8.     *)
(* Bytes are integers 0..255; the conversions between integers and their   *)
(* big-endian bytes are computed by division and remainder by 2^8.         *)
(***************************************************************************)
EXTENDS Integers, Sequences, FiniteSets, TLC

VARIABLES
    euui,   \* the identifier the caller holds: the receiver of the methods
    op,     \* the operation called last
    arg,    \* its arguments
    ret,    \* what it returned
    pc,     \* "running", or "panicked" once a call has panicked
    e0,     \* the identifier a chain of segment-replacing calls started from
    trail   \* the calls of the chain: receiver, operation, arguments, result

vars == <<euui, op, arg, ret, pc, e0, trail>>

-----------------------------------------------------------------------------
(* Bounds of the model *)

\* indices and parts are drawn from 0 .. (length of the view) + MaxOver
MaxOver == 2
\* input arrays are patterns a*n + c with a stride a in 0..MaxStride
MaxStride == 1
\* a chain has at most MaxChain segment-replacing calls
MaxChain == 2

-----------------------------------------------------------------------------
(* Machine integers *)

ByteBase == 2^8
LimbBase == 2^16

U8 == 0..(ByteBase - 1)

\* uN::from_be_bytes for N = 16 * n: the bytes b[0..2n-1], most significant first
UFromBeBytes(b, n) == [k \in 0..(n - 1) |-> b[2 * k] * ByteBase + b[2 * k + 1]]

\* uN::to_be_bytes for N = 16 * n: byte j is (x div 2^(8*(2n-1-j))) mod 2^8
UToBeBytes(x, n) ==
    [j \in 0..(2 * n - 1) |->
        IF j % 2 = 0 THEN x[j \div 2] \div ByteBase ELSE x[j \div 2] % ByteBase]

U128FromBeBytes(b) == UFromBeBytes(b, 8)
U128ToBeBytes(x) == UToBeBytes(x, 8)
U64FromBeBytes(b) == UFromBeBytes(b, 4)
U64ToBeBytes(x) == UToBeBytes(x, 4)

\* a[lo..hi]
Slice(a, lo, hi) == [k \in 0..(hi - lo - 1) |-> a[lo + k]]

\* dst[lo..hi].copy_from_slice(src)
CopyFromSlice(dst, lo, hi, src) ==
    [n \in DOMAIN dst |-> IF lo <= n /\ n < hi THEN src[n - lo] ELSE dst[n]]

\* `a[lo..hi].try_into().expect("Logic error")` into an array of len elements
\* panics when the slice is out of the array or not len long
SlicePanics(a, lo, hi, len) ==
    ~(lo <= hi /\ (lo..(hi - 1)) \subseteq DOMAIN a /\ hi - lo = len)

\* Option<T>
None == [some |-> FALSE]
Some(v) == [some |-> TRUE, val |-> v]

\* how a call ends: it returns a value, or it panics
Return(v) == [panic |-> FALSE, value |-> v]
Panic == [panic |-> TRUE]

-----------------------------------------------------------------------------
(* Euui: lib.rs *)

zero == [i \in 0..3 |-> [k \in 0..7 |-> 0]]

from_be_guids(guids) == guids

\* a[lo..hi] read backwards
SliceRev(a, lo, hi) == [k \in 0..(hi - lo - 1) |-> a[hi - 1 - k]]

\* from_be_bytes decoding each chunk least significant byte first
from_be_bytes_le(bytes) ==
    [i \in 0..3 |-> U128FromBeBytes(SliceRev(bytes, i * 16, (i + 1) * 16))]

from_be_bytes(bytes) ==
    [i \in 0..3 |-> U128FromBeBytes(Slice(bytes, i * 16, (i + 1) * 16))]

\* from_be_longs with the two words of each pair exchanged in the buffer
from_be_longs_swapped(bytes) ==
    [i \in 0..3 |->
        LET long_a == U64ToBeBytes(bytes[i * 2])
            long_b == U64ToBeBytes(bytes[i * 2 + 1])
            buf0 == [k \in 0..15 |-> 0]
            buf1 == CopyFromSlice(buf0, 0, 8, long_b)
            buf == CopyFromSlice(buf1, 8, 16, long_a)
        IN  U128FromBeBytes(buf)]

from_be_longs(bytes) ==
    [i \in 0..3 |->
        LET long_a == U64ToBeBytes(bytes[i * 2])
            long_b == U64ToBeBytes(bytes[i * 2 + 1])
            buf0 == [k \in 0..15 |-> 0]
            buf1 == CopyFromSlice(buf0, 0, 8, long_a)
            buf == CopyFromSlice(buf1, 8, 16, long_b)
        IN  U128FromBeBytes(buf)]

u128(self, index) ==
    IF index >= 4 THEN None ELSE Some(self[index])

RECURSIVE ToBeBytesLoop(_, _, _)
ToBeBytesLoop(self, i, bytes) ==
    IF i >= 4 THEN bytes
    ELSE LET part == U128ToBeBytes(self[i])
         IN  ToBeBytesLoop(self, i + 1,
                           CopyFromSlice(bytes, i * 16, (i + 1) * 16, part))

to_be_bytes(self) == ToBeBytesLoop(self, 0, [n \in 0..63 |-> 0])

\* u64 decoding its 8 bytes least significant byte first
u64_le(self, index) ==
    IF index >= 4 * 2 THEN Return(None)
    ELSE LET start == index * 8
             end == start + 8
             bytes == to_be_bytes(self)
         IN  IF SlicePanics(bytes, start, end, 8) THEN Panic
             ELSE Return(Some(U64FromBeBytes(SliceRev(bytes, start, end))))

\* `.expect("Logic error")` panics when the slice is not 8 bytes of the array
u64(self, index) ==
    IF index >= 4 * 2 THEN Return(None)
    ELSE LET start == index * 8
             end == start + 8
             bytes == to_be_bytes(self)
         IN  IF SlicePanics(bytes, start, end, 8) THEN Panic
             ELSE Return(Some(U64FromBeBytes(Slice(bytes, start, end))))

\* u8 reading the segment's bytes least significant first
u8_le(self, index) ==
    IF index >= 4 * 16 THEN Return(None)
    ELSE LET wide_index == index \div 16
             byte_index == index % 16
             wide == u128(self, wide_index)
         IN  IF ~wide.some THEN Panic
             ELSE LET bytes == SliceRev(U128ToBeBytes(wide.val), 0, 16)
                  IN  IF byte_index \notin DOMAIN bytes THEN Panic
                      ELSE Return(Some(bytes[byte_index]))

\* u8 with the bound off by one: `index > self.0.len() * 16`
u8_off_by_one(self, index) ==
    IF index > 4 * 16 THEN Return(None)
    ELSE LET wide_index == index \div 16
             byte_index == index % 16
             wide == u128(self, wide_index)
         IN  IF ~wide.some THEN Panic
             ELSE LET bytes == U128ToBeBytes(wide.val)
                  IN  IF byte_index \notin DOMAIN bytes THEN Panic
                      ELSE Return(Some(bytes[byte_index]))

\* `.unwrap()` of None panics, and so does indexing outside the 16 bytes
u8(self, index) ==
    IF index >= 4 * 16 THEN Return(None)
    ELSE LET wide_index == index \div 16
             byte_index == index % 16
             wide == u128(self, wide_index)
         IN  IF ~wide.some THEN Panic
             ELSE LET bytes == U128ToBeBytes(wide.val)
                  IN  IF byte_index \notin DOMAIN bytes THEN Panic
                      ELSE Return(Some(bytes[byte_index]))

\* the loop of to_be_longs with the two halves of each segment exchanged
RECURSIVE ToBeLongsLoopSwapped(_, _, _)
ToBeLongsLoopSwapped(self, i, longs) ==
    IF i >= 4 THEN longs
    ELSE LET bytes == U128ToBeBytes(self[i])
             hi == U64FromBeBytes(Slice(bytes, 0, 8))
             lo == U64FromBeBytes(Slice(bytes, 8, 16))
         IN  ToBeLongsLoopSwapped(self, i + 1,
                                  [longs EXCEPT ![i * 2] = lo, ![i * 2 + 1] = hi])

RECURSIVE ToBeLongsLoop(_, _, _)
ToBeLongsLoop(self, i, longs) ==
    IF i >= 4 THEN longs
    ELSE LET bytes == U128ToBeBytes(self[i])
             hi == U64FromBeBytes(Slice(bytes, 0, 8))
             lo == U64FromBeBytes(Slice(bytes, 8, 16))
         IN  ToBeLongsLoop(self, i + 1,
                           [longs EXCEPT ![i * 2] = hi, ![i * 2 + 1] = lo])

to_be_longs_swapped(self) ==
    ToBeLongsLoopSwapped(self, 0, [n \in 0..7 |-> [k \in 0..3 |-> 0]])

to_be_longs(self) == ToBeLongsLoop(self, 0, [n \in 0..7 |-> [k \in 0..3 |-> 0]])

to_be_guids(self) == self

\* Ord for u128: the comparison of two integers, from their most significant
\* limb on
RECURSIVE UCmp(_, _, _)
UCmp(x, y, k) ==
    IF k >= 8 THEN "Equal"
    ELSE IF x[k] < y[k] THEN "Less"
    ELSE IF x[k] > y[k] THEN "Greater"
    ELSE UCmp(x, y, k + 1)

\* Ord for [u128; 4]: the first pair of elements that differ decides
RECURSIVE ArrayCmp(_, _, _)
ArrayCmp(a, b, i) ==
    IF i >= 4 THEN "Equal"
    ELSE LET c == UCmp(a[i], b[i], 0)
         IN  IF c # "Equal" THEN c ELSE ArrayCmp(a, b, i + 1)

\* the same comparison taking the elements from the last to the first
RECURSIVE ArrayCmpRev(_, _, _)
ArrayCmpRev(a, b, i) ==
    IF i >= 4 THEN "Equal"
    ELSE LET c == UCmp(a[3 - i], b[3 - i], 0)
         IN  IF c # "Equal" THEN c ELSE ArrayCmpRev(a, b, i + 1)

cmp_from_last(self, other) == ArrayCmpRev(self, other, 0)

\* #[derive(Ord)]: the comparison of the one field, self.0
cmp(self, other) == ArrayCmp(self, other, 0)

\* #[derive(PartialOrd)]: `self < other`
lt(self, other) == cmp(self, other) = "Less"

\* #[derive(PartialEq)]: `self == other`, every element equal
eq(self, other) == \A i \in 0..3 : UCmp(self[i], other[i], 0) = "Equal"

\* Strings are sequences of characters.
HexChars == <<"0", "1", "2", "3", "4", "5", "6", "7",
              "8", "9", "a", "b", "c", "d", "e", "f">>

\* x >> 4 and x == 0 on the limbs of x
ShiftRight4(x) ==
    [k \in DOMAIN x |->
        IF k = 0 THEN x[k] \div 16
        ELSE ((x[k - 1] % 16) * LimbBase + x[k]) \div 16]
IsZeroU(x) == \A k \in DOMAIN x : x[k] = 0

\* `{:x}`: the digits of x in base 16, least significant first computed, none
\* for the leading zeros, "0" for 0
RECURSIVE LowerHex(_)
LowerHex(x) ==
    LET n == x[7] % 16
        rest == ShiftRight4(x)
    IN  IF IsZeroU(rest) THEN <<HexChars[n + 1]>>
        ELSE LowerHex(rest) \o <<HexChars[n + 1]>>

\* `{:032x}`: the digits, after as many '0' as bring them to 32 characters
LowerHex032(x) ==
    LET digits == LowerHex(x)
    IN  IF Len(digits) >= 32 THEN digits
        ELSE [k \in 1..(32 - Len(digits)) |-> "0"] \o digits

\* format with `{:x}` for `{:032x}`
format_unpadded(self) ==
    LowerHex(self[0]) \o <<"-">> \o LowerHex(self[1]) \o <<"\n">>
        \o LowerHex(self[2]) \o <<"-">> \o LowerHex(self[3])

format(self) ==
    LowerHex032(self[0]) \o <<"-">> \o LowerHex032(self[1]) \o <<"\n">>
        \o LowerHex032(self[2]) \o <<"-">> \o LowerHex032(self[3])

\* Display::fmt, through ToString
to_string(self) ==
    LowerHex032(self[0]) \o LowerHex032(self[1])
        \o LowerHex032(self[2]) \o LowerHex032(self[3])

-----------------------------------------------------------------------------
(* Euui and Uuid: uuid.rs.  A Uuid holds 16 bytes, most significant first. *)

\* Uuid::as_u128
as_u128(uuid) == U128FromBeBytes(uuid)

\* Uuid::from_u128
from_u128(v) == U128ToBeBytes(v)

\* with_uuid_part starting from a zeroed array instead of a copy of self.0
with_uuid_part_from_zero(self, uuid, part) ==
    IF part > 3 THEN Panic
    ELSE LET guids == zero
         IN  IF part \notin DOMAIN guids THEN Panic
             ELSE Return([guids EXCEPT ![part] = as_u128(uuid)])

\* with_uuid_part with the check off by one: `part >= 3`
with_uuid_part_checks_3(self, uuid, part) ==
    IF part >= 3 THEN Panic
    ELSE LET guids == self
         IN  IF part \notin DOMAIN guids THEN Panic
             ELSE Return([guids EXCEPT ![part] = as_u128(uuid)])

\* the explicit `panic!("Index out of bounds")`; the indexing guids[part]
\* panics too when part is no index of the array
with_uuid_part(self, uuid, part) ==
    IF part > 3 THEN Panic
    ELSE LET guids == self
         IN  IF part \notin DOMAIN guids THEN Panic
             ELSE Return([guids EXCEPT ![part] = as_u128(uuid)])

with_first(self, uuid) == with_uuid_part(self, uuid, 0)
with_second(self, uuid) == with_uuid_part(self, uuid, 1)
with_third(self, uuid) == with_uuid_part(self, uuid, 2)
with_fourth(self, uuid) == with_uuid_part(self, uuid, 3)

\* self.u128(index).map(Uuid::from_u128)
uuid(self, index) ==
    LET o == u128(self, index)
    IN  IF o.some THEN Some(from_u128(o.val)) ELSE None

-----------------------------------------------------------------------------
(* Euui and the random source: random.rs.  Each `random()` of the source   *)
(* is a parameter: the value the random source returned to that call.      *)

Array4(a, b, c, d) ==
    [i \in 0..3 |-> CASE i = 0 -> a [] i = 1 -> b [] i = 2 -> c [] OTHER -> d]

random(r0, r1, r2, r3) == Array4(r0, r1, r2, r3)

\* regenerate_third and regenerate_second pasted from a neighbour
regenerate_third_as_fourth(self, r) == Array4(self[0], self[1], self[2], r)
regenerate_second_as_first(self, r) == Array4(r, self[1], self[2], self[3])

regenerate_first(self, r) == Array4(r, self[1], self[2], self[3])
regenerate_second(self, r) == Array4(self[0], r, self[2], self[3])
regenerate_third(self, r) == Array4(self[0], self[1], r, self[3])
regenerate_fourth(self, r) == Array4(self[0], self[1], self[2], r)

-----------------------------------------------------------------------------
(* The inputs the environment may pass *)

\* byte n of the pattern <<a, c>>
PatByte(p, n) == (p[1] * n + p[2]) % ByteBase

\* limb m of the integer whose big-endian bytes follow the pattern
PatLimb(p, m) == PatByte(p, 2 * m) * ByteBase + PatByte(p, 2 * m + 1)

ByteSeeds == {0, 200, 255}
Patterns == (0..MaxStride) \X ByteSeeds

\* [u8; 64]
ByteArrays == {[n \in 0..63 |-> PatByte(p, n)] : p \in Patterns}

\* [u64; 8]
LongArrays == {[n \in 0..7 |-> [k \in 0..3 |-> PatLimb(p, 4 * n + k)]] : p \in Patterns}

\* [u128; 4]
GuidArrays == {[i \in 0..3 |-> [k \in 0..7 |-> PatLimb(p, 8 * i + k)]] : p \in Patterns}

\* what the random source may return: 0 among them
RandomPool == {[k \in 0..7 |-> PatLimb(p, k)] : p \in {<<0, 0>>, <<1, 77>>}}

\* Uuid values
UuidPool == {[j \in 0..15 |-> PatByte(p, j)] : p \in {<<1, 16>>, <<0, 255>>}}

\* the identifiers an identifier e may be compared with: e itself, the one
\* after e, those built from the input arrays and the random source, and e
\* with one segment replaced
Others(e) ==
    {e, [e EXCEPT ![3][7] = (@ + 1) % LimbBase]}
        \cup GuidArrays
        \cup {Array4(r0, r1, r2, r3) : r0 \in RandomPool, r1 \in RandomPool,
                                       r2 \in RandomPool, r3 \in RandomPool}
        \cup {[e EXCEPT ![i] = r] : i \in 0..3, r \in RandomPool}

\* usize arguments: every index of a view of len elements, the first ones
\* past its end, and a large one
Indices(len) == (0..(len + MaxOver)) \cup {2^30}

-----------------------------------------------------------------------------
(* The caller *)

NoValue == <<>>
Constructors == {"zero", "from_be_guids", "from_be_bytes", "from_be_longs", "random"}

Init ==
    /\ euui = zero          \* Euui::default()
    /\ op = "default"
    /\ arg = NoValue
    /\ ret = NoValue
    /\ pc = "running"
    /\ e0 = euui
    /\ trail = <<>>

\* one call on the receiver euui: it panics, or it returns value
Call(name, a, outcome) ==
    /\ op' = name
    /\ arg' = a
    /\ euui' = euui
    /\ IF outcome.panic
       THEN pc' = "panicked" /\ ret' = NoValue
       ELSE pc' = "running" /\ ret' = outcome.value
    /\ UNCHANGED <<e0, trail>>

\* `let euui = <constructor>(..);`
Bind ==
    /\ pc = "running"
    /\ op \in Constructors
    /\ euui' = ret
    /\ op' = "let"
    /\ arg' = NoValue
    /\ ret' = NoValue
    /\ pc' = pc
    /\ e0' = ret
    /\ trail' = <<>>

Zero ==
    /\ pc = "running"
    /\ Call("zero", NoValue, Return(zero))

FromBeGuids == \E guids \in GuidArrays :
    /\ pc = "running"
    /\ Call("from_be_guids", guids, Return(from_be_guids(guids)))

FromBeBytes == \E bytes \in ByteArrays :
    /\ pc = "running"
    /\ Call("from_be_bytes", bytes, Return(from_be_bytes(bytes)))

FromBeLongs == \E longs \in LongArrays :
    /\ pc = "running"
    /\ Call("from_be_longs", longs, Return(from_be_longs(longs)))

Random == \E r0 \in RandomPool, r1 \in RandomPool, r2 \in RandomPool, r3 \in RandomPool :
    /\ pc = "running"
    /\ Call("random", NoValue, Return(random(r0, r1, r2, r3)))

GetU128 == \E index \in Indices(4) :
    /\ pc = "running"
    /\ Call("u128", index, Return(u128(euui, index)))

GetU64 == \E index \in Indices(8) :
    /\ pc = "running"
    /\ Call("u64", index, u64(euui, index))

GetU8 == \E index \in Indices(64) :
    /\ pc = "running"
    /\ Call("u8", index, u8(euui, index))

GetUuid == \E index \in Indices(4) :
    /\ pc = "running"
    /\ Call("uuid", index, Return(uuid(euui, index)))

ToBeBytes ==
    /\ pc = "running"
    /\ Call("to_be_bytes", NoValue, Return(to_be_bytes(euui)))

ToBeLongs ==
    /\ pc = "running"
    /\ Call("to_be_longs", NoValue, Return(to_be_longs(euui)))

ToBeGuids ==
    /\ pc = "running"
    /\ Call("to_be_guids", NoValue, Return(to_be_guids(euui)))

Eq == \E other \in Others(euui) :
    /\ pc = "running"
    /\ Call("eq", other, Return(eq(euui, other)))

Lt == \E other \in Others(euui) :
    /\ pc = "running"
    /\ Call("lt", other, Return(lt(euui, other)))

Format ==
    /\ pc = "running"
    /\ Call("format", NoValue, Return(format(euui)))

DisplayFmt ==
    /\ pc = "running"
    /\ Call("to_string", NoValue, Return(to_string(euui)))

WithUuidPart == \E u \in UuidPool, part \in Indices(4) :
    /\ pc = "running"
    /\ Call("with_uuid_part", [uuid |-> u, part |-> part], with_uuid_part(euui, u, part))

WithFirst == \E u \in UuidPool :
    /\ pc = "running"
    /\ Call("with_first", [uuid |-> u, part |-> 0], with_first(euui, u))

WithSecond == \E u \in UuidPool :
    /\ pc = "running"
    /\ Call("with_second", [uuid |-> u, part |-> 1], with_second(euui, u))

WithThird == \E u \in UuidPool :
    /\ pc = "running"
    /\ Call("with_third", [uuid |-> u, part |-> 2], with_third(euui, u))

WithFourth == \E u \in UuidPool :
    /\ pc = "running"
    /\ Call("with_fourth", [uuid |-> u, part |-> 3], with_fourth(euui, u))

RegenerateFirst == \E r \in RandomPool :
    /\ pc = "running"
    /\ Call("regenerate_first", [random |-> r, part |-> 0], Return(regenerate_first(euui, r)))

RegenerateSecond == \E r \in RandomPool :
    /\ pc = "running"
    /\ Call("regenerate_second", [random |-> r, part |-> 1], Return(regenerate_second(euui, r)))

RegenerateThird == \E r \in RandomPool :
    /\ pc = "running"
    /\ Call("regenerate_third", [random |-> r, part |-> 2], Return(regenerate_third(euui, r)))

RegenerateFourth == \E r \in RandomPool :
    /\ pc = "running"
    /\ Call("regenerate_fourth", [random |-> r, part |-> 3], Return(regenerate_fourth(euui, r)))

Next ==
    \/ Zero \/ FromBeGuids \/ FromBeBytes \/ FromBeLongs \/ Random
    \/ Bind
    \/ GetU128 \/ GetU64 \/ GetU8 \/ GetUuid
    \/ ToBeBytes \/ ToBeLongs \/ ToBeGuids
    \/ Eq \/ Lt
    \/ Format \/ DisplayFmt
    \/ WithUuidPart \/ WithFirst \/ WithSecond \/ WithThird \/ WithFourth
    \/ RegenerateFirst \/ RegenerateSecond \/ RegenerateThird \/ RegenerateFourth

Spec == Init /\ [][Next]_vars

-----------------------------------------------------------------------------
(* Chains: each segment-replacing call is made on the result of the one    *)
(* before, `let next = previous.with_uuid_part(uuid, part);`               *)

WithOps == {"with_uuid_part", "with_first", "with_second", "with_third", "with_fourth"}
RegenerateOps ==
    {"regenerate_first", "regenerate_second", "regenerate_third", "regenerate_fourth"}

\* the identifiers a chain starts from: Euui::zero() and the identifier of
\* the bytes 0, 1, .., 63
Starts == {zero, from_be_bytes([n \in 0..63 |-> n])}

InitChain ==
    /\ euui \in Starts
    /\ op = "let"
    /\ arg = NoValue
    /\ ret = NoValue
    /\ pc = "running"
    /\ e0 = euui
    /\ trail = <<>>

\* the result of the last call becomes the receiver of the next
Rebind ==
    /\ pc = "running"
    /\ op \in WithOps \cup RegenerateOps
    /\ Len(trail) < MaxChain
    /\ euui' = ret
    /\ trail' = Append(trail, [recv |-> euui, op |-> op, arg |-> arg, out |-> ret])
    /\ op' = "let"
    /\ arg' = NoValue
    /\ ret' = NoValue
    /\ UNCHANGED <<pc, e0>>

NextChain ==
    \/ WithUuidPart
    \/ RegenerateFirst \/ RegenerateSecond \/ RegenerateThird \/ RegenerateFourth
    \/ Rebind

SpecChain == InitChain /\ [][NextChain]_vars

-----------------------------------------------------------------------------
(* The shapes of the values *)

IsUInt(x, n) == DOMAIN x = 0..(n - 1) /\ \A k \in 0..(n - 1) : x[k] \in 0..(LimbBase - 1)
IsU64(x) == IsUInt(x, 4)
IsU128(x) == IsUInt(x, 8)
IsEuui(e) == DOMAIN e = 0..3 /\ \A i \in 0..3 : IsU128(e[i])
IsBytes(b, n) == DOMAIN b = 0..(n - 1) /\ \A k \in 0..(n - 1) : b[k] \in U8

-----------------------------------------------------------------------------
(* Claims *)

\* C1: for every 64-byte array b, from_be_bytes(b) returns an identifier e
\* with to_be_bytes(e) = b, byte for byte.
C1_BytesRoundTrip ==
    op = "from_be_bytes" =>
        /\ pc = "running"
        /\ IsEuui(ret)
        /\ to_be_bytes(ret) = arg

\* from_be_bytes has decoded the array 0, 1, .., 63 of the crate's test
C1_Witness ==
    /\ op = "from_be_bytes"
    /\ pc = "running"
    /\ \A n \in 0..63 : arg[n] = n

\* C2: for every array w of eight 64-bit values, from_be_longs(w) returns an
\* identifier e with to_be_longs(e) = w, element for element.
C2_LongsRoundTrip ==
    op = "from_be_longs" =>
        /\ pc = "running"
        /\ IsEuui(ret)
        /\ to_be_longs(ret) = arg

\* from_be_longs has paired eight words that differ from one another
C2_Witness ==
    /\ op = "from_be_longs"
    /\ pc = "running"
    /\ \A m \in 0..7 : \A n \in 0..7 : m # n => arg[m] # arg[n]

\* the length of the view each indexed accessor reads
AccessorLen == [u128 |-> 4, u64 |-> 8, u8 |-> 64, uuid |-> 4]

\* C3: an indexed accessor (u128, u64, u8, uuid) never panics; it returns None
\* exactly when the index is past the end of its view (4, 8, 64, 4), and Some
\* value of its type otherwise.
C3_AccessorsAbsentIffOutOfRange ==
    op \in DOMAIN AccessorLen =>
        /\ pc = "running"
        /\ ret.some <=> arg < AccessorLen[op]
        /\ ~ret.some => ret = None
        /\ ret.some =>
            CASE op = "u128" -> IsU128(ret.val)
              [] op = "u64" -> IsU64(ret.val)
              [] op = "u8" -> ret.val \in U8
              [] op = "uuid" -> IsBytes(ret.val, 16)

\* u8 was asked the first index past the 64 bytes and returned None
C3_Witness ==
    /\ op = "u8"
    /\ arg = 64
    /\ pc = "running"
    /\ ret = None

\* C4: with_uuid_part panics for every part > 3 and returns an identifier for
\* every part in 0..=3, and no other operation panics.
C4_OnlyWithUuidPartPanics ==
    /\ op = "with_uuid_part" => (pc = "panicked" <=> arg.part > 3)
    /\ op = "with_uuid_part" /\ arg.part <= 3 => IsEuui(ret)
    /\ pc = "panicked" => op = "with_uuid_part"

\* with_uuid_part was called with part = 4 and panicked
C4_Witness ==
    /\ op = "with_uuid_part"
    /\ arg.part = 4
    /\ pc = "panicked"

\* a call leaves its receiver as it was
ReceiverKept == op' \in WithOps \cup RegenerateOps => euui' = euui

\* the identifier returned has the segments of e at every position but p
OthersKept(e, p, r) == \A j \in (0..3) \ {p} : r[j] = e[j]

C5_WithSets ==
    op \in WithOps /\ pc = "running" =>
        /\ IsEuui(ret)
        /\ ret[arg.part] = as_u128(arg.uuid)
        /\ OthersKept(euui, arg.part, ret)

\* C5: with_uuid_part(u, p) for p in 0..=3, and with_first .. with_fourth for
\* p = 0 .. 3, return an identifier whose segment p is u's 128-bit value and
\* whose other three segments are the receiver's; the receiver is unchanged.
C5_WithUuidPartFrame == [](C5_WithSets) /\ [][ReceiverKept]_vars

\* with_third has replaced a segment of a receiver whose four segments differ
\* from one another and from the uuid's value
C5_Witness ==
    /\ op = "with_third"
    /\ pc = "running"
    /\ \A i \in 0..3 : \A j \in 0..3 : i # j => euui[i] # euui[j]
    /\ \A i \in 0..3 : euui[i] # as_u128(arg.uuid)
    /\ ret[2] = as_u128(arg.uuid)

C6_RegenerateKeeps ==
    op \in RegenerateOps =>
        /\ pc = "running"
        /\ IsEuui(ret)
        /\ OthersKept(euui, arg.part, ret)

\* C6: regenerate_first/second/third/fourth (k = 0/1/2/3) return an identifier
\* whose segments at every position other than k are the receiver's, whatever
\* the random source returns; the receiver is unchanged.
C6_RegenerateFrame == [](C6_RegenerateKeeps) /\ [][ReceiverKept]_vars

\* regenerate_third has returned a new third segment for a receiver whose four
\* segments differ from one another
C6_Witness ==
    /\ op = "regenerate_third"
    /\ pc = "running"
    /\ \A i \in 0..3 : \A j \in 0..3 : i # j => euui[i] # euui[j]
    /\ ret[2] # euui[2]

BeByte(x, j) == (x[j \div 2] \div (ByteBase ^ (1 - (j % 2)))) % ByteBase

\* C8: for i in 0..4 and j in 0..16, u8(i*16 + j) is the byte at offset j of
\* the big-endian encoding of segment u128(i), and the element i*16 + j of
\* to_be_bytes().
C8_ByteOfSegment ==
    \A i \in 0..3 : \A j \in 0..15 :
        op = "u8" /\ arg = i * 16 + j =>
            /\ pc = "running"
            /\ u128(euui, i).some
            /\ ret = Some(BeByte(u128(euui, i).val, j))
            /\ ret = Some(to_be_bytes(euui)[i * 16 + j])

\* u8(37) has returned byte 5 of the third segment, whose 16 bytes differ
C8_Witness ==
    /\ op = "u8"
    /\ arg = 37
    /\ pc = "running"
    /\ ret.some
    /\ \A j \in 0..15 : j # 5 => BeByte(euui[2], j) # ret.val

\* x div 2^64 and x mod 2^64 of a u128: its four high and its four low limbs
High64(x) == [k \in 0..3 |-> x[k]]
Low64(x) == [k \in 0..3 |-> x[4 + k]]

\* the value of 8 big-endian bytes
BeValue64(b) == [k \in 0..3 |-> b[2 * k] * ByteBase + b[2 * k + 1]]

\* C9: for i in 0..4, u64(2*i) is the high 64 bits of segment u128(i) and
\* u64(2*i + 1) its low 64 bits; u64(n) is the big-endian value of the bytes
\* [n*8, n*8 + 8) of to_be_bytes() and is to_be_longs()[n], for n in 0..8.
C9_WordOfSegment ==
    \A i \in 0..3 : \A h \in 0..1 :
        op = "u64" /\ arg = 2 * i + h =>
            /\ pc = "running"
            /\ ret = Some(IF h = 0 THEN High64(euui[i]) ELSE Low64(euui[i]))
            /\ ret = Some(BeValue64([k \in 0..7 |-> to_be_bytes(euui)[arg * 8 + k]]))
            /\ ret = Some(to_be_longs(euui)[arg])

\* u64(5) has returned the low half of the third segment, which differs from
\* its high half
C9_Witness ==
    /\ op = "u64"
    /\ arg = 5
    /\ pc = "running"
    /\ ret = Some(Low64(euui[2]))
    /\ Low64(euui[2]) # High64(euui[2])

\* hi * 2^64 + lo for two u64: the limbs of hi, then the limbs of lo
Join64(hi, lo) == [k \in 0..7 |-> IF k < 4 THEN hi[k] ELSE lo[k - 4]]

\* C10: segment i of from_be_longs(w) is w[2*i] * 2^64 + w[2*i + 1], a u128
\* holding both words whole.
C10_LongsPaired ==
    op = "from_be_longs" =>
        /\ pc = "running"
        /\ \A i \in 0..3 :
            /\ IsU128(ret[i])
            /\ ret[i] = Join64(arg[2 * i], arg[2 * i + 1])
            /\ High64(ret[i]) = arg[2 * i]
            /\ Low64(ret[i]) = arg[2 * i + 1]

\* from_be_longs has paired words whose limbs reach 2^16 - 1 and whose high
\* and low words differ
C10_Witness ==
    /\ op = "from_be_longs"
    /\ pc = "running"
    /\ arg[0] # arg[1]
    /\ \E n \in 0..7 : \E k \in 0..3 : arg[n][k] >= LimbBase - ByteBase

\* digit d (0 the first) of the 32 hexadecimal digits of a u128, in lowercase
HexDigitAt(x, d) == HexChars[((x[d \div 4] \div (16 ^ (3 - (d % 4)))) % 16) + 1]

\* s with '-' after its 32nd character, a line feed after its 64th and '-'
\* after its 96th
Separated(s) ==
    SubSeq(s, 1, 32) \o <<"-">> \o SubSeq(s, 33, 64) \o <<"\n">>
        \o SubSeq(s, 65, 96) \o <<"-">> \o SubSeq(s, 97, 128)

\* C11: to_string() is 128 characters, segment i rendered as its 32 lowercase
\* hexadecimal digits with the leading zeros; format() is 131 characters: the
\* same digits with '-' after the 32nd, one line feed after the 64th and '-'
\* after the 96th, and nothing else.
C11_FixedWidthHex ==
    /\ op = "to_string" =>
        /\ pc = "running"
        /\ Len(ret) = 128
        /\ \A i \in 0..3 : \A d \in 0..31 : ret[32 * i + d + 1] = HexDigitAt(euui[i], d)
    /\ op = "format" =>
        /\ pc = "running"
        /\ Len(ret) = 131
        /\ \A i \in 0..3 : \A d \in 0..31 : ret[33 * i + d + 1] = HexDigitAt(euui[i], d)
        /\ ret[33] = "-" /\ ret[66] = "\n" /\ ret[99] = "-"
        /\ ret = Separated(to_string(euui))

\* format() has rendered an identifier whose first segment has leading zero
\* digits before other digits
C11_Witness ==
    /\ op = "format"
    /\ pc = "running"
    /\ ret[1] = "0"
    /\ \E d \in 2..32 : ret[d] \notin {"0", "-"}
    /\ \E d \in 1..131 : ret[d] \in {"a", "b", "c", "d", "e", "f"}

\* x < y for two integers of the same number of limbs
ULess(x, y) ==
    \E k \in DOMAIN x : x[k] < y[k] /\ \A h \in 0..(k - 1) : x[h] = y[h]

\* a is before b in the lexicographic order of two arrays of 64 bytes
BytesLess(a, b) ==
    \E n \in 0..63 : a[n] < b[n] /\ \A m \in 0..(n - 1) : a[m] = b[m]

\* C12: a == b iff their 64 big-endian bytes are equal; a < b iff the first
\* segment (from segment 0) in which they differ is smaller in a, which is
\* iff the bytes of a are before the bytes of b in lexicographic order.
C12_OrderIsByteOrder ==
    /\ op = "eq" =>
        /\ pc = "running"
        /\ ret <=> to_be_bytes(euui) = to_be_bytes(arg)
        /\ ret <=> \A i \in 0..3 : euui[i] = arg[i]
    /\ op = "lt" =>
        /\ pc = "running"
        /\ ret <=> BytesLess(to_be_bytes(euui), to_be_bytes(arg))
        /\ ret <=> \E i \in 0..3 :
                    /\ ULess(euui[i], arg[i])
                    /\ \A j \in 0..(i - 1) : euui[j] = arg[j]

\* a < b was found true for an a whose segment 0 is smaller and whose
\* segment 3 is greater than b's
C12_Witness ==
    /\ op = "lt"
    /\ pc = "running"
    /\ ret = TRUE
    /\ ULess(euui[0], arg[0])
    /\ ULess(arg[3], euui[3])

\* the value a call of the chain writes into its segment
Written(step) ==
    IF step.op \in WithOps THEN as_u128(step.arg.uuid) ELSE step.arg.random

\* the calls of the chain that replaced segment p
Targeting(p) == {n \in 1..Len(trail) : trail[n].arg.part = p}
Last(S) == CHOOSE n \in S : \A m \in S : m <= n

C13_ChainState ==
    /\ IsEuui(e0) /\ IsEuui(euui)
    /\ \A n \in 1..Len(trail) : IsEuui(trail[n].recv) /\ IsEuui(trail[n].out)
    \* each call was made on the result of the one before, as that one
    \* returned it
    /\ Len(trail) > 0 => trail[1].recv = e0 /\ trail[Len(trail)].out = euui
    /\ \A n \in 1..(Len(trail) - 1) : trail[n + 1].recv = trail[n].out
    \* the last write of each segment is what the final value holds
    /\ \A p \in 0..3 :
        euui[p] = IF Targeting(p) = {} THEN e0[p]
                  ELSE Written(trail[Last(Targeting(p))])
    \* two with_uuid_part in a row: on two positions they commute, on one
    \* position the later one wins
    /\ \A n \in 1..(Len(trail) - 1) :
        LET a == trail[n]
            b == trail[n + 1]
        IN  a.op = "with_uuid_part" /\ b.op = "with_uuid_part" =>
                IF a.arg.part # b.arg.part
                THEN b.out = with_uuid_part(
                                 with_uuid_part(a.recv, b.arg.uuid, b.arg.part).value,
                                 a.arg.uuid, a.arg.part).value
                ELSE b.out = with_uuid_part(a.recv, b.arg.uuid, b.arg.part).value

\* the start and the calls already made stay as they were
C13_ChainKept ==
    /\ e0' = e0
    /\ Len(trail') >= Len(trail)
    /\ SubSeq(trail', 1, Len(trail)) = trail

\* C13: along a chain of with_uuid_part(u, p), p in 0..=3, and regenerate_*
\* calls, each made on the result of the one before, every value has four
\* segments in 0..2^128, segment p of the final value is what the last call
\* on position p wrote (the start's segment p if there was none), the start
\* and the intermediate values stay as they were, two with_uuid_part on two
\* positions commute and on one position the later one wins.
C13_LastWriteWins == [](C13_ChainState) /\ [][C13_ChainKept]_vars

\* a chain of two calls on the same position of a start whose segments are
\* not zero, the second writing another value than the first
C13_Witness ==
    /\ Len(trail) = 2
    /\ e0 # zero
    /\ trail[1].arg.part = trail[2].arg.part
    /\ Written(trail[1]) # Written(trail[2])
    /\ euui[trail[2].arg.part] = Written(trail[2])

====
